---- MODULE Spec2Model ----
(***************************************************************************)
(* A model of rclrs: the runtime context lifecycle of context.rs (Ros,     *)
(* RosContext, RosOptions over the rcl C library) and the identifier       *)
(* validators of node.rs (over the rmw C library).                         *)
(*                                                                         *)
(* The native library is modelled by the contract that the safety          *)
(* comments of the source quote from its documentation.  Every native      *)
(* call is recorded, per Ros::init attempt, in the history variable        *)
(* `calls`, together with the state of the context and of the options it   *)
(* was issued on.                                                          *)
(***************************************************************************)
EXTENDS Integers, Sequences, FiniteSets, TLC

\* ------------------------------------------------------------------ bounds
\* Number of Ros::init calls made by the process.
MaxInits == 2
\* Largest number of process arguments.
MaxArgs == 2
\* Largest number of runs of a text given to a validator.
MaxRuns == 3

\* ------------------------------------------------- native return codes (rcl)
RCL_RET_OK == 0
RCL_RET_ERROR == 1
RCL_RET_BAD_ALLOC == 10
RCL_RET_INVALID_ARGUMENT == 11
RCL_RET_ALREADY_INIT == 100
RCL_RET_ALREADY_SHUTDOWN == 106
RCL_RET_INVALID_ROS_ARGS == 1002

Ids == 1..MaxInits
Threads == {"t1", "t2"}

\* A text is a byte string, written as a sequence of runs: Run(ch, n) is
\* the byte ch repeated n >= 1 times.
Run(ch, n) == [ch |-> ch, n |-> n]

\* Process arguments.  Three arguments stand for the cases the code and
\* the native parser tell apart: a plain argument ("a"), an argument with
\* an embedded zero byte ("a\0b"), and a malformed ROS argument ("-r"); and
\* one that env::args() cannot turn into a String (the byte 0xFF).
PlainArg == <<Run(97, 1)>>
NulArg == <<Run(97, 1), Run(0, 1), Run(98, 1)>>
BadRosArg == <<Run(45, 1), Run(114, 1)>>
NonUnicodeArg == <<Run(255, 1)>>
ArgUniverse == {PlainArg, NulArg, BadRosArg, NonUnicodeArg}

RECURSIVE SeqsUpTo(_, _)
SeqsUpTo(S, n) ==
    IF n = 0 THEN {<<>>}
    ELSE LET shorter == SeqsUpTo(S, n - 1)
         IN shorter \cup {Append(s, x) : s \in {q \in shorter : Len(q) = n - 1}, x \in S}

VARIABLES
    argv,       \* env::args(): the argument list of the process
    nextId,     \* the next Ros::init call is attempt nextId
    outcome,    \* per attempt: what Ros::init returned
    passed,     \* per attempt: the argument vector handed to rcl_init
    context,    \* per attempt: native state of its rcl_context_t
    options,    \* per attempt: native state of its rcl_init_options_t
    ros,        \* per attempt: position of the Ros handle in its life
    writer,     \* per attempt: holder of the RwLock's write guard
    readers,    \* per attempt: holders of the RwLock's read guards
    calls,      \* per attempt: the native calls issued, in order
    panics,     \* per attempt: the panics raised (failed asserts, fatal arms)
    overlapped, \* some Ros::init ran while another handle was still alive
    tpc,        \* per thread: position
    tctx,       \* per thread: the handle whose guard it holds
    seen,       \* per thread: result of its last is_valid()
    vin,        \* node.rs: the text the validators are called on
    vfault,     \* node.rs: how the native validator behaves for this text
    vop,        \* node.rs: the validator called last
    vnat,       \* node.rs: what the native validator was asked and answered
    vout,       \* node.rs: what the last validator call returned
    builder,    \* node.rs: the NodeBuilder value of the caller
    blast,      \* node.rs: the NodeBuilder operation called last
    barg,       \* node.rs: the argument of that operation
    bpanic      \* node.rs: that operation panicked

lifeVars == <<argv, nextId, outcome, passed, context, options, ros, writer, readers,
              calls, panics, overlapped, tpc, tctx, seen>>
builderVars == <<builder, blast, barg, bpanic>>
nodeVars == <<vin, vfault, vop, vnat, vout, builderVars>>
vars == <<lifeVars, nodeVars>>

\* ------------------------------------------------------------ std::ffi
HasNul(text) == \E i \in 1..Len(text) : text[i].ch = 0

\* Number of bytes of a text.
RECURSIVE TextLen(_)
TextLen(text) == IF text = <<>> THEN 0 ELSE Head(text).n + TextLen(Tail(text))

\* Offset of the first zero byte of a text that has one.
RECURSIVE NulPosition(_)
NulPosition(text) ==
    IF text = <<>> \/ Head(text).ch = 0 THEN 0
    ELSE Head(text).n + NulPosition(Tail(text))

\* CString::new: Err(NulError(position)) on an interior zero byte, else the
\* bytes followed by the terminator.
CString_new(text) ==
    IF HasNul(text) THEN [ok |-> FALSE, buf |-> <<>>, nul |-> NulPosition(text)]
    ELSE [ok |-> TRUE, buf |-> Append(text, Run(0, 1)), nul |-> 0]

\* What a native routine reads through a `*const c_char`: the bytes before
\* the first zero byte.
RECURSIVE c_str(_)
c_str(buf) ==
    IF buf = <<>> \/ Head(buf).ch = 0 THEN <<>>
    ELSE <<Head(buf)>> \o c_str(Tail(buf))

\* env::args(): the iterator panics on an argument that is not valid
\* Unicode; the texts here are ASCII but for bytes above 127.
IsUnicode(text) == \A i \in 1..Len(text) : text[i].ch < 128
env_args(av) == [ok |-> \A i \in 1..Len(av) : IsUnicode(av[i]), args |-> av]

\* Mutant: the collection of the arguments ends at the first one that
\* CString::new refuses.
RECURSIVE FilterMapCString_stops_at_refused(_)
FilterMapCString_stops_at_refused(as) ==
    IF as = <<>> THEN <<>>
    ELSE LET c == CString_new(Head(as))
         IN IF c.ok THEN <<c.buf>> \o FilterMapCString_stops_at_refused(Tail(as)) ELSE <<>>

RECURSIVE FilterMapCString(_)
FilterMapCString(as) ==
    IF as = <<>> THEN <<>>
    ELSE LET c == CString_new(Head(as))
         IN (IF c.ok THEN <<c.buf>> ELSE <<>>) \o FilterMapCString(Tail(as))

\* ------------------------------------------------------- native contract
\* rcl_get_zero_initialized_context
rcl_get_zero_initialized_context == "zero"

\* rcl_context_is_valid: false on a zero-initialized context, true on an
\* initialized one until rcl_shutdown.
rcl_context_is_valid(c) == c = "initialized"

\* rcl_init_options_init with the default allocator; `fault` is the
\* environment's answer (OK, or an allocation failure).
rcl_init_options_init(fault) ==
    IF fault = RCL_RET_OK THEN [ret |-> RCL_RET_OK, opt |-> "initialized"]
    ELSE [ret |-> fault, opt |-> "zero"]

rcl_init_options_fini(o) ==
    IF o = "initialized" THEN [ret |-> RCL_RET_OK, opt |-> "finalized"]
    ELSE [ret |-> RCL_RET_INVALID_ARGUMENT, opt |-> o]

\* The native argument parser rejects a malformed ROS argument.
InvalidRosArgs(cargs) == \E i \in 1..Len(cargs) : c_str(cargs[i]) = BadRosArg

\* rcl_init: the context must be zero-initialized and the options
\* initialized; on any failure the context is left zero-initialized.
rcl_init(cargs, o, c, fault) ==
    IF c # "zero" THEN [ret |-> RCL_RET_ALREADY_INIT, ctx |-> c]
    ELSE IF o # "initialized" THEN [ret |-> RCL_RET_INVALID_ARGUMENT, ctx |-> c]
    ELSE IF fault # RCL_RET_OK THEN [ret |-> fault, ctx |-> "zero"]
    ELSE IF InvalidRosArgs(cargs) THEN [ret |-> RCL_RET_INVALID_ROS_ARGS, ctx |-> "zero"]
    ELSE [ret |-> RCL_RET_OK, ctx |-> "initialized"]

\* rcl_shutdown: succeeds on an initialized context only.
rcl_shutdown(c) ==
    IF c = "initialized" THEN [ret |-> RCL_RET_OK, ctx |-> "shutdown"]
    ELSE [ret |-> RCL_RET_ALREADY_SHUTDOWN, ctx |-> c]

\* rcl_context_fini: OK on a zero-initialized context and on one that was
\* shut down; INVALID_ARGUMENT on an initialized and valid one.
rcl_context_fini(c) ==
    IF c = "initialized" THEN [ret |-> RCL_RET_INVALID_ARGUMENT, ctx |-> c]
    ELSE [ret |-> RCL_RET_OK, ctx |-> "zero"]

\* One entry of the native call history.
Call(op, c, o, ret) == [op |-> op, ctx |-> c, opt |-> o, ret |-> ret]


\* ------------------------------------------------------------ context.rs
\* Mutant: the options are zero-initialized and never initialized.
RosOptions_default_zero_only(fault) ==
    [call |-> Call("none", "unborn", "zero", RCL_RET_OK), opt |-> "zero", ok |-> TRUE]

\* RosOptions::default: rcl_init_options_init, asserted to return OK.
RosOptions_default(fault) ==
    LET r == rcl_init_options_init(fault)
    IN [call |-> Call("rcl_init_options_init", "unborn", "zero", r.ret),
        opt |-> r.opt,
        ok |-> r.ret = RCL_RET_OK]

\* Mutant: the destructor of RosOptions does not finalize the options.
RosOptions_drop_missing(o, c) ==
    [call |-> Call("none", c, o, RCL_RET_OK), opt |-> o, ok |-> TRUE]

\* Drop for RosOptions: rcl_init_options_fini, asserted to return OK.
RosOptions_drop(o, c) ==
    LET r == rcl_init_options_fini(o)
    IN [call |-> Call("rcl_init_options_fini", c, o, r.ret),
        opt |-> r.opt,
        ok |-> r.ret = RCL_RET_OK]

\* Mutant: one context is shared by the calls of Ros::init, so a call made
\* while a handle is live is given its initialized context.
RosContext_default_shared ==
    IF \E h \in Ids : context[h] = "initialized" THEN "initialized"
    ELSE rcl_get_zero_initialized_context

\* RosContext::default
RosContext_default == rcl_get_zero_initialized_context

\* Mutant: is_valid takes every context that is not zero-initialized for live.
is_valid_unless_zero(c) == c # "zero"

\* RosContext::is_valid(&mut self)
is_valid(c) == rcl_context_is_valid(c)

\* Drop for RosContext: rcl_context_fini, asserted to return OK; the
\* storage of the context is gone afterwards.
RosContext_drop(c, o) ==
    LET r == rcl_context_fini(c)
    IN [call |-> Call("rcl_context_fini", c, o, r.ret),
        ctx |-> "freed",
        ok |-> r.ret = RCL_RET_OK]

\* Mutant: Drop for Ros does not shut the context down.
Ros_drop_shutdown_missing(c, o) ==
    [call |-> Call("none", c, o, RCL_RET_OK), ctx |-> c, ok |-> TRUE]

\* Mutant: Drop for Ros shuts down a context that was shut down already.
Ros_drop_shutdown_twice(c, o) ==
    LET first == rcl_shutdown(c)
        r == rcl_shutdown(first.ctx)
    IN [call |-> Call("rcl_shutdown", first.ctx, o, r.ret),
        ctx |-> r.ctx,
        ok |-> r.ret = RCL_RET_OK]

\* The rcl_shutdown call of Drop for Ros, asserted to return OK.
Ros_drop_shutdown(c, o) ==
    LET r == rcl_shutdown(c)
    IN [call |-> Call("rcl_shutdown", c, o, r.ret),
        ctx |-> r.ctx,
        ok |-> r.ret = RCL_RET_OK]

\* Mutant: the INVALID_ROS_ARGS arm builds the handle as well.
InitMatch_invalid_args_ok(ret) ==
    IF ret \in {RCL_RET_OK, RCL_RET_INVALID_ROS_ARGS} THEN "Ok" ELSE "panic"

\* Mutant: the catch-all arm returns the recoverable error.
InitMatch_catch_all_err(ret) ==
    IF ret = RCL_RET_OK THEN "Ok" ELSE "Err_InvalidROSArguments"

\* The match on rcl_init's return value at the end of Ros::init.
InitMatch(ret) ==
    IF ret = RCL_RET_OK THEN "Ok"
    ELSE IF ret = RCL_RET_INVALID_ROS_ARGS THEN "Err_InvalidROSArguments"
    ELSE "panic"

\* Mutant: the context of a failed attempt is forgotten, not dropped.
DropLocals_forgets_context(c, o, unwinding) ==
    LET do == RosOptions_drop(o, c)
    IN [calls |-> <<do.call>>, ctx |-> c, opt |-> do.opt,
        panics |-> IF do.ok THEN {} ELSE {"options_fini_assert"}]

\* Mutant: the locals are dropped on the Err return only; a panic leaves
\* them as they are.
DropLocals_leaks_on_unwind(c, o, unwinding) ==
    IF unwinding
    THEN [calls |-> <<>>, ctx |-> c, opt |-> o, panics |-> {}]
    ELSE LET dc == RosContext_drop(c, o)
             do == RosOptions_drop(o, dc.ctx)
         IN [calls |-> <<dc.call, do.call>>, ctx |-> dc.ctx, opt |-> do.opt,
             panics |-> (IF dc.ok THEN {} ELSE {"context_fini_assert"})
                        \cup (IF do.ok THEN {} ELSE {"options_fini_assert"})]

\* The locals of Ros::init that are still owned when it is left without a
\* handle go out of scope in reverse order of declaration: the context,
\* then the options.  `unwinding`: the scope is left by a panic, so a
\* failed assert in a destructor aborts the process on the spot.
DropLocals(c, o, unwinding) ==
    LET dc == RosContext_drop(c, o)
        do == RosOptions_drop(o, dc.ctx)
    IN IF unwinding /\ ~dc.ok
       THEN [calls |-> <<dc.call>>, ctx |-> dc.ctx, opt |-> o,
             panics |-> {"context_fini_assert", "abort"}]
       ELSE [calls |-> <<dc.call, do.call>>, ctx |-> dc.ctx, opt |-> do.opt,
             panics |-> (IF dc.ok THEN {} ELSE {"context_fini_assert"})
                        \cup (IF do.ok THEN {} ELSE {"options_fini_assert"})]

\* Ros::init, whole: what it returns, the handle it leaves (if any), the
\* native calls it issued and the state it leaves the two resources in.
Ros_init(av, optFault, initFault) ==
    LET args == FilterMapCString(env_args(av).args)
        od == RosOptions_default(optFault)
    IN IF ~env_args(av).ok
       THEN [outcome |-> "panic", ros |-> "none", passed |-> <<>>,
             ctx |-> "unborn", opt |-> "unborn", calls |-> <<>>,
             panics |-> {"args_not_unicode"}]
       ELSE IF ~od.ok
       THEN [outcome |-> "panic", ros |-> "none", passed |-> <<>>,
             ctx |-> "unborn", opt |-> od.opt, calls |-> <<od.call>>,
             panics |-> {"options_init_assert"}]
       ELSE
         LET c0 == RosContext_default
             r == rcl_init(args, od.opt, c0, initFault)
             ci == Call("rcl_init", c0, od.opt, r.ret)
             m == InitMatch(r.ret)
         IN IF m = "Ok"
            THEN \* the context moves into the handle; the options are dropped
                 LET do == RosOptions_drop(od.opt, r.ctx)
                 IN [outcome |-> "Ok", ros |-> "live", passed |-> args,
                     ctx |-> r.ctx, opt |-> do.opt,
                     calls |-> <<od.call, ci, do.call>>,
                     panics |-> IF do.ok THEN {} ELSE {"options_fini_assert"}]
            ELSE LET d == DropLocals(r.ctx, od.opt, m = "panic")
                 IN [outcome |-> IF d.panics # {} THEN "panic" ELSE m,
                     ros |-> "none", passed |-> args,
                     ctx |-> d.ctx, opt |-> d.opt,
                     calls |-> <<od.call, ci>> \o d.calls,
                     panics |-> d.panics
                                \cup (IF m = "panic" THEN {"init_unspecified"} ELSE {})]

\* ------------------------------------------------------------------ state
OptFaults == {RCL_RET_OK, RCL_RET_BAD_ALLOC}
InitFaults == {RCL_RET_OK, RCL_RET_ERROR, RCL_RET_BAD_ALLOC}

NotCalled == [called |-> FALSE, arg |-> <<>>, ret |-> 0, result |-> 0, index |-> 0]
NoResult == [tag |-> "none", index |-> 0]

\* An Option<String>: None, Some(text).
None == <<>>
Some(text) == <<text>>

Arg(text, flag) == [text |-> text, flag |-> flag]

\* NodeBuilder::default(): no name, the empty namespace, the default node
\* options (rosout enabled).
NodeBuilder_default == [alive |-> TRUE, name |-> None, namespace |-> <<>>, rosout |-> TRUE]

NodeInit(texts, faults) ==
    /\ vin \in texts
    /\ vfault \in faults
    /\ vop = "none"
    /\ vnat = NotCalled
    /\ vout = NoResult
    /\ builder = NodeBuilder_default
    /\ blast = "default"
    /\ barg = Arg(<<>>, FALSE)
    /\ bpanic = FALSE

LifeInit(argvs) ==
    /\ argv \in argvs
    /\ nextId = 1
    /\ outcome = [h \in Ids |-> "none"]
    /\ passed = [h \in Ids |-> <<>>]
    /\ context = [h \in Ids |-> "unborn"]
    /\ options = [h \in Ids |-> "unborn"]
    /\ ros = [h \in Ids |-> "none"]
    /\ writer = [h \in Ids |-> "none"]
    /\ readers = [h \in Ids |-> {}]
    /\ calls = [h \in Ids |-> <<>>]
    /\ panics = [h \in Ids |-> {}]
    /\ overlapped = FALSE
    /\ tpc = [t \in Threads |-> "idle"]
    /\ tctx = [t \in Threads |-> 0]
    /\ seen = [t \in Threads |-> "none"]

Init == LifeInit(SeqsUpTo(ArgUniverse, MaxArgs)) /\ NodeInit({<<>>}, {"none"})

threadVars == <<tpc, tctx, seen>>
lockVars == <<writer, readers>>
initVars == <<argv, nextId, outcome, passed, options, overlapped>>

\* Ros::init() called by the process: attempt nextId.
RosInit(optFault, initFault) ==
    /\ nextId <= MaxInits
    /\ LET r == Ros_init(argv, optFault, initFault)
       IN /\ outcome' = [outcome EXCEPT ![nextId] = r.outcome]
          /\ passed' = [passed EXCEPT ![nextId] = r.passed]
          /\ context' = [context EXCEPT ![nextId] = r.ctx]
          /\ options' = [options EXCEPT ![nextId] = r.opt]
          /\ ros' = [ros EXCEPT ![nextId] = r.ros]
          /\ calls' = [calls EXCEPT ![nextId] = r.calls]
          /\ panics' = [panics EXCEPT ![nextId] = r.panics]
    /\ overlapped' = (overlapped \/ \E h \in Ids : ros[h] \notin {"none", "gone"})
    /\ nextId' = nextId + 1
    /\ UNCHANGED nodeVars
    /\ UNCHANGED <<argv, writer, readers, tpc, tctx, seen>>

\* The owner lets the handle go: Drop for Ros is entered and waits for
\* self.context.write().
DropBegin(h) ==
    /\ ros[h] = "live"
    /\ ros' = [ros EXCEPT ![h] = "dropping"]
    /\ UNCHANGED nodeVars
    /\ UNCHANGED <<initVars, context, calls, panics, lockVars, threadVars>>

\* Mutant: the destructor takes self.context.read(), which only waits for
\* a writer to leave.
DropLock_read(h) ==
    /\ ros[h] = "dropping"
    /\ writer[h] = "none"
    /\ writer' = [writer EXCEPT ![h] = "drop"]
    /\ ros' = [ros EXCEPT ![h] = "shutting"]
    /\ UNCHANGED <<vin, vfault, vop, vnat, vout, builder, blast, barg, bpanic>>
    /\ UNCHANGED <<argv, nextId, outcome, passed, options, overlapped,
                   context, calls, panics, readers, tpc, tctx, seen>>

\* self.context.write() returns: no reader and no writer holds the lock.
DropLock(h) ==
    /\ ros[h] = "dropping"
    /\ writer[h] = "none" /\ readers[h] = {}
    /\ writer' = [writer EXCEPT ![h] = "drop"]
    /\ ros' = [ros EXCEPT ![h] = "shutting"]
    /\ UNCHANGED nodeVars
    /\ UNCHANGED <<initVars, context, calls, panics, readers, threadVars>>

\* rcl_shutdown returns, the write guard (a temporary of the statement) is
\* released and the return value is asserted.
DropShutdown(h) ==
    /\ ros[h] = "shutting"
    /\ LET s == Ros_drop_shutdown(context[h], options[h])
       IN /\ context' = [context EXCEPT ![h] = s.ctx]
          /\ calls' = [calls EXCEPT ![h] = Append(@, s.call)]
          /\ panics' = [panics EXCEPT ![h] = @ \cup (IF s.ok THEN {} ELSE {"shutdown_assert"})]
    /\ writer' = [writer EXCEPT ![h] = "none"]
    /\ ros' = [ros EXCEPT ![h] = "fields"]
    /\ UNCHANGED nodeVars
    /\ UNCHANGED <<initVars, readers, threadVars>>

\* The field of the handle is dropped: Drop for RosContext.
DropFields(h) ==
    /\ ros[h] = "fields"
    /\ LET d == RosContext_drop(context[h], options[h])
       IN /\ context' = [context EXCEPT ![h] = d.ctx]
          /\ calls' = [calls EXCEPT ![h] = Append(@, d.call)]
          /\ panics' = [panics EXCEPT ![h] = @ \cup (IF d.ok THEN {} ELSE {"context_fini_assert"})]
    /\ ros' = [ros EXCEPT ![h] = "gone"]
    /\ UNCHANGED nodeVars
    /\ UNCHANGED <<initVars, lockVars, threadVars>>

\* ----------------------------------------- threads sharing a live handle
\* ros.context.read(): shared access, granted while no writer holds the lock.
AcquireRead(t, h) ==
    /\ tpc[t] = "idle"
    /\ ros[h] = "live"
    /\ writer[h] = "none"
    /\ readers' = [readers EXCEPT ![h] = @ \cup {t}]
    /\ tpc' = [tpc EXCEPT ![t] = "read"]
    /\ tctx' = [tctx EXCEPT ![t] = h]
    /\ UNCHANGED nodeVars
    /\ UNCHANGED <<initVars, context, ros, calls, panics, writer, seen>>

\* The read guard is dropped.
ReleaseRead(t) ==
    /\ tpc[t] = "read"
    /\ readers' = [readers EXCEPT ![tctx[t]] = @ \ {t}]
    /\ tpc' = [tpc EXCEPT ![t] = "idle"]
    /\ tctx' = [tctx EXCEPT ![t] = 0]
    /\ UNCHANGED nodeVars
    /\ UNCHANGED <<initVars, context, ros, calls, panics, writer, seen>>

\* ros.context.write(): exclusive access, granted while nobody holds the lock.
AcquireWrite(t, h) ==
    /\ tpc[t] = "idle"
    /\ ros[h] = "live"
    /\ writer[h] = "none" /\ readers[h] = {}
    /\ writer' = [writer EXCEPT ![h] = t]
    /\ tpc' = [tpc EXCEPT ![t] = "write"]
    /\ tctx' = [tctx EXCEPT ![t] = h]
    /\ UNCHANGED nodeVars
    /\ UNCHANGED <<initVars, context, ros, calls, panics, readers, seen>>

\* The guards through which is_valid(&mut self) can be called: it takes the
\* context by exclusive reference, which only a write guard hands out.
GuardForIsValid == "write"

\* raw_context.is_valid() is entered ...
IsValidBegin(t) ==
    /\ tpc[t] = GuardForIsValid
    /\ tpc' = [tpc EXCEPT ![t] = "is_valid"]
    /\ UNCHANGED nodeVars
    /\ UNCHANGED <<initVars, context, ros, calls, panics, lockVars, tctx, seen>>

\* ... and returns what rcl_context_is_valid answers.
IsValidEnd(t) ==
    /\ tpc[t] = "is_valid"
    /\ seen' = [seen EXCEPT ![t] = IF is_valid(context[tctx[t]]) THEN "live" ELSE "not_live"]
    /\ tpc' = [tpc EXCEPT ![t] = "checked"]
    /\ UNCHANGED nodeVars
    /\ UNCHANGED <<initVars, context, ros, calls, panics, lockVars, tctx>>

\* The write guard is dropped.
ReleaseWrite(t) ==
    /\ tpc[t] \in {"write", "checked"}
    /\ writer' = [writer EXCEPT ![tctx[t]] = "none"]
    /\ tpc' = [tpc EXCEPT ![t] = "idle"]
    /\ tctx' = [tctx EXCEPT ![t] = 0]
    /\ seen' = [seen EXCEPT ![t] = "none"]
    /\ UNCHANGED nodeVars
    /\ UNCHANGED <<initVars, context, ros, calls, panics, readers>>

Next ==
    \/ \E fo \in OptFaults, fi \in InitFaults : RosInit(fo, fi)
    \/ \E h \in Ids : DropBegin(h)
    \/ \E h \in Ids : DropLock(h)
    \/ \E h \in Ids : DropShutdown(h)
    \/ \E h \in Ids : DropFields(h)
    \/ \E t \in Threads, h \in Ids : AcquireRead(t, h)
    \/ \E t \in Threads : ReleaseRead(t)
    \/ \E t \in Threads, h \in Ids : AcquireWrite(t, h)
    \/ \E t \in Threads : IsValidBegin(t)
    \/ \E t \in Threads : IsValidEnd(t)
    \/ \E t \in Threads : ReleaseWrite(t)

Spec == Init /\ [][Next]_vars

\* --------------------------------------------------------------- node.rs
\* Native codes of rmw.
RMW_RET_OK == 0
RMW_RET_INVALID_ARGUMENT == 11
RMW_NODE_NAME_VALID == 0
RMW_NODE_NAME_INVALID_IS_EMPTY_STRING == 1
RMW_NODE_NAME_INVALID_CONTAINS_UNALLOWED_CHARACTERS == 2
RMW_NODE_NAME_INVALID_STARTS_WITH_NUMBER == 3
RMW_NODE_NAME_INVALID_TOO_LONG == 4
RMW_NODE_NAME_MAX_NAME_LENGTH == 255

IsDigit(ch) == ch \in 48..57
IsAlnum(ch) == IsDigit(ch) \/ ch \in 65..90 \/ ch \in 97..122

\* Offset of the first byte that is neither alphanumeric nor '_', or -1.
RECURSIVE FirstUnallowedFrom(_, _)
FirstUnallowedFrom(text, off) ==
    IF text = <<>> THEN -1
    ELSE IF ~(IsAlnum(Head(text).ch) \/ Head(text).ch = 95) THEN off
    ELSE FirstUnallowedFrom(Tail(text), off + Head(text).n)

\* How the native validators can depart from their contract: not at all,
\* by a return status other than OK, or by a validation code beyond the
\* enumerated ones.
NativeFaults == {"none", "status", "code"}

NativeAnswer(name, ret, result, index) ==
    [called |-> TRUE, arg |-> name, ret |-> ret, result |-> result, index |-> index]

\* rmw_validate_node_name, called with validation_result = 0 and
\* invalid_index = 0: not empty, only alphanumerics and '_', no leading
\* digit, at most RMW_NODE_NAME_MAX_NAME_LENGTH bytes, checked in this order.
rmw_validate_node_name(name, fault) ==
    IF fault = "status" THEN NativeAnswer(name, RMW_RET_INVALID_ARGUMENT, 0, 0)
    ELSE IF fault = "code" THEN NativeAnswer(name, RMW_RET_OK, RMW_NODE_NAME_INVALID_TOO_LONG + 1, 0)
    ELSE IF TextLen(name) = 0
    THEN NativeAnswer(name, RMW_RET_OK, RMW_NODE_NAME_INVALID_IS_EMPTY_STRING, 0)
    ELSE IF FirstUnallowedFrom(name, 0) # -1
    THEN NativeAnswer(name, RMW_RET_OK, RMW_NODE_NAME_INVALID_CONTAINS_UNALLOWED_CHARACTERS,
                      FirstUnallowedFrom(name, 0))
    ELSE IF IsDigit(Head(name).ch)
    THEN NativeAnswer(name, RMW_RET_OK, RMW_NODE_NAME_INVALID_STARTS_WITH_NUMBER, 0)
    ELSE IF TextLen(name) > RMW_NODE_NAME_MAX_NAME_LENGTH
    THEN NativeAnswer(name, RMW_RET_OK, RMW_NODE_NAME_INVALID_TOO_LONG,
                      RMW_NODE_NAME_MAX_NAME_LENGTH - 1)
    ELSE NativeAnswer(name, RMW_RET_OK, RMW_NODE_NAME_VALID, 0)

\* `validation_result as u32`: the identity on the non-negative codes; a
\* negative one wraps to a value above every code (2^32 is beyond the
\* integers of the model checker, so the wrap is taken at 2^31).
AsU32(v) == IF v >= 0 THEN v ELSE (v + 2147483647) + 1

Result(tag, index) == [tag |-> tag, index |-> index]

\* Mutant: the offset of the offending byte is not passed on.
NodeNameMatch_drops_index(code, index) ==
    IF code = RMW_NODE_NAME_VALID THEN Result("Ok", 0)
    ELSE IF code = RMW_NODE_NAME_INVALID_IS_EMPTY_STRING THEN Result("EmptyString", 0)
    ELSE IF code = RMW_NODE_NAME_INVALID_CONTAINS_UNALLOWED_CHARACTERS
    THEN Result("ContainsUnallowedCharacters", 0)
    ELSE IF code = RMW_NODE_NAME_INVALID_STARTS_WITH_NUMBER THEN Result("StartsWithNumber", 0)
    ELSE IF code = RMW_NODE_NAME_INVALID_TOO_LONG THEN Result("IsTooLong", 0)
    ELSE Result("panic", 0)

\* The match of validate_node_name on the validation result.
NodeNameMatch(code, index) ==
    IF code = RMW_NODE_NAME_VALID THEN Result("Ok", 0)
    ELSE IF code = RMW_NODE_NAME_INVALID_IS_EMPTY_STRING THEN Result("EmptyString", 0)
    ELSE IF code = RMW_NODE_NAME_INVALID_CONTAINS_UNALLOWED_CHARACTERS
    THEN Result("ContainsUnallowedCharacters", index)
    ELSE IF code = RMW_NODE_NAME_INVALID_STARTS_WITH_NUMBER THEN Result("StartsWithNumber", 0)
    ELSE IF code = RMW_NODE_NAME_INVALID_TOO_LONG THEN Result("IsTooLong", 0)
    ELSE Result("panic", 0)

\* Mutant: the status of the native call is not looked at.
validate_node_name_ignores_status(name, fault) ==
    LET c == CString_new(name)
    IN IF ~c.ok THEN [res |-> Result("InvalidCString", c.nul), nat |-> NotCalled]
       ELSE LET nat == rmw_validate_node_name(c_str(c.buf), fault)
            IN [res |-> NodeNameMatch(AsU32(nat.result), nat.index), nat |-> nat]

\* Mutant: the validator refuses to work while no runtime handle is live.
validate_node_name_needs_runtime(name, fault) ==
    IF \E h \in Ids : ros[h] = "live"
    THEN LET c == CString_new(name)
         IN IF ~c.ok THEN [res |-> Result("InvalidCString", c.nul), nat |-> NotCalled]
            ELSE LET nat == rmw_validate_node_name(c_str(c.buf), fault)
                 IN IF nat.ret # RMW_RET_OK THEN [res |-> Result("panic", 0), nat |-> nat]
                    ELSE [res |-> NodeNameMatch(AsU32(nat.result), nat.index), nat |-> nat]
    ELSE [res |-> Result("panic", 0), nat |-> NotCalled]

\* Node::validate_node_name: the result and the native call it made.
validate_node_name(name, fault) ==
    LET c == CString_new(name)
    IN IF ~c.ok THEN [res |-> Result("InvalidCString", c.nul), nat |-> NotCalled]
       ELSE LET nat == rmw_validate_node_name(c_str(c.buf), fault)
            IN IF nat.ret # RMW_RET_OK THEN [res |-> Result("panic", 0), nat |-> nat]
               ELSE [res |-> NodeNameMatch(AsU32(nat.result), nat.index), nat |-> nat]

RMW_NAMESPACE_VALID == 0
RMW_NAMESPACE_INVALID_IS_EMPTY_STRING == 1
RMW_NAMESPACE_INVALID_NOT_ABSOLUTE == 2
RMW_NAMESPACE_INVALID_ENDS_WITH_FORWARD_SLASH == 3
RMW_NAMESPACE_INVALID_CONTAINS_UNALLOWED_CHARACTERS == 4
RMW_NAMESPACE_INVALID_CONTAINS_REPEATED_FORWARD_SLASH == 5
RMW_NAMESPACE_INVALID_NAME_TOKEN_STARTS_WITH_NUMBER == 6
RMW_NAMESPACE_INVALID_TOO_LONG == 7
RMW_NAMESPACE_MAX_LENGTH == 245

\* Offset of the first byte that is neither alphanumeric nor '_' nor '/',
\* or -1.
RECURSIVE FirstUnallowedNsFrom(_, _)
FirstUnallowedNsFrom(text, off) ==
    IF text = <<>> THEN -1
    ELSE IF ~(IsAlnum(Head(text).ch) \/ Head(text).ch \in {95, 47}) THEN off
    ELSE FirstUnallowedNsFrom(Tail(text), off + Head(text).n)

NoToken == [code |-> RMW_NAMESPACE_VALID, index |-> 0]

\* The scan for a '/' followed by a '/' or by a digit: the first such
\* place decides, and the offset reported is that of the following byte.
RECURSIVE FirstBadToken(_, _)
FirstBadToken(text, off) ==
    IF text = <<>> THEN NoToken
    ELSE LET r == Head(text)
             rest == Tail(text)
             last == off + r.n - 1
         IN IF r.ch # 47 THEN FirstBadToken(rest, off + r.n)
            ELSE IF r.n > 1
            THEN [code |-> RMW_NAMESPACE_INVALID_CONTAINS_REPEATED_FORWARD_SLASH,
                  index |-> off + 1]
            ELSE IF rest # <<>> /\ Head(rest).ch = 47
            THEN [code |-> RMW_NAMESPACE_INVALID_CONTAINS_REPEATED_FORWARD_SLASH,
                  index |-> last + 1]
            ELSE IF rest # <<>> /\ IsDigit(Head(rest).ch)
            THEN [code |-> RMW_NAMESPACE_INVALID_NAME_TOKEN_STARTS_WITH_NUMBER,
                  index |-> last + 1]
            ELSE FirstBadToken(rest, off + r.n)

\* rmw_validate_namespace, called with validation_result = 0 and
\* invalid_index = 0: "/" is valid; otherwise not empty, absolute, no
\* trailing '/', only alphanumerics, '_' and '/', no "//", no token with a
\* leading digit, at most RMW_NAMESPACE_MAX_LENGTH bytes, in this order.
rmw_validate_namespace(ns, fault) ==
    IF fault = "status" THEN NativeAnswer(ns, RMW_RET_INVALID_ARGUMENT, 0, 0)
    ELSE IF fault = "code" THEN NativeAnswer(ns, RMW_RET_OK, RMW_NAMESPACE_INVALID_TOO_LONG + 1, 0)
    ELSE IF ns = <<Run(47, 1)>> THEN NativeAnswer(ns, RMW_RET_OK, RMW_NAMESPACE_VALID, 0)
    ELSE IF TextLen(ns) = 0
    THEN NativeAnswer(ns, RMW_RET_OK, RMW_NAMESPACE_INVALID_IS_EMPTY_STRING, 0)
    ELSE IF Head(ns).ch # 47
    THEN NativeAnswer(ns, RMW_RET_OK, RMW_NAMESPACE_INVALID_NOT_ABSOLUTE, 0)
    ELSE IF ns[Len(ns)].ch = 47
    THEN NativeAnswer(ns, RMW_RET_OK, RMW_NAMESPACE_INVALID_ENDS_WITH_FORWARD_SLASH,
                      TextLen(ns) - 1)
    ELSE IF FirstUnallowedNsFrom(ns, 0) # -1
    THEN NativeAnswer(ns, RMW_RET_OK, RMW_NAMESPACE_INVALID_CONTAINS_UNALLOWED_CHARACTERS,
                      FirstUnallowedNsFrom(ns, 0))
    ELSE IF FirstBadToken(ns, 0) # NoToken
    THEN NativeAnswer(ns, RMW_RET_OK, FirstBadToken(ns, 0).code, FirstBadToken(ns, 0).index)
    ELSE IF TextLen(ns) > RMW_NAMESPACE_MAX_LENGTH
    THEN NativeAnswer(ns, RMW_RET_OK, RMW_NAMESPACE_INVALID_TOO_LONG,
                      RMW_NAMESPACE_MAX_LENGTH - 1)
    ELSE NativeAnswer(ns, RMW_RET_OK, RMW_NAMESPACE_VALID, 0)

\* Mutant: the arms for a trailing and for a repeated '/' are one arm.
NodeNamespaceMatch_merges_slash_arms(code, index) ==
    IF code = RMW_NAMESPACE_VALID THEN Result("Ok", 0)
    ELSE IF code = RMW_NAMESPACE_INVALID_IS_EMPTY_STRING THEN Result("EmptyString", 0)
    ELSE IF code = RMW_NAMESPACE_INVALID_CONTAINS_UNALLOWED_CHARACTERS
    THEN Result("ContainsUnallowedCharacters", index)
    ELSE IF code = RMW_NAMESPACE_INVALID_NAME_TOKEN_STARTS_WITH_NUMBER
    THEN Result("StartsWithNumber", 0)
    ELSE IF code = RMW_NAMESPACE_INVALID_TOO_LONG THEN Result("IsTooLong", 0)
    ELSE IF code = RMW_NAMESPACE_INVALID_NOT_ABSOLUTE THEN Result("NotAbsolute", 0)
    ELSE IF code \in {RMW_NAMESPACE_INVALID_ENDS_WITH_FORWARD_SLASH,
                      RMW_NAMESPACE_INVALID_CONTAINS_REPEATED_FORWARD_SLASH}
    THEN Result("ContainsRepeatedForwardSlash", index)
    ELSE Result("panic", 0)

\* The match of validate_node_namespace on the validation result.
NodeNamespaceMatch(code, index) ==
    IF code = RMW_NAMESPACE_VALID THEN Result("Ok", 0)
    ELSE IF code = RMW_NAMESPACE_INVALID_IS_EMPTY_STRING THEN Result("EmptyString", 0)
    ELSE IF code = RMW_NAMESPACE_INVALID_CONTAINS_UNALLOWED_CHARACTERS
    THEN Result("ContainsUnallowedCharacters", index)
    ELSE IF code = RMW_NAMESPACE_INVALID_NAME_TOKEN_STARTS_WITH_NUMBER
    THEN Result("StartsWithNumber", 0)
    ELSE IF code = RMW_NAMESPACE_INVALID_TOO_LONG THEN Result("IsTooLong", 0)
    ELSE IF code = RMW_NAMESPACE_INVALID_NOT_ABSOLUTE THEN Result("NotAbsolute", 0)
    ELSE IF code = RMW_NAMESPACE_INVALID_ENDS_WITH_FORWARD_SLASH
    THEN Result("EndsWithForwardSlash", 0)
    ELSE IF code = RMW_NAMESPACE_INVALID_CONTAINS_REPEATED_FORWARD_SLASH
    THEN Result("ContainsRepeatedForwardSlash", index)
    ELSE Result("panic", 0)

\* Mutant: a namespace with a zero byte is cut at that byte and validated.
validate_node_namespace_truncates(namespace, fault) ==
    LET nat == rmw_validate_namespace(c_str(namespace), fault)
    IN IF nat.ret # RMW_RET_OK THEN [res |-> Result("panic", 0), nat |-> nat]
       ELSE [res |-> NodeNamespaceMatch(AsU32(nat.result), nat.index), nat |-> nat]

\* Node::validate_node_namespace: the result and the native call it made.
validate_node_namespace(namespace, fault) ==
    LET c == CString_new(namespace)
    IN IF ~c.ok THEN [res |-> Result("InvalidCString", c.nul), nat |-> NotCalled]
       ELSE LET nat == rmw_validate_namespace(c_str(c.buf), fault)
            IN IF nat.ret # RMW_RET_OK THEN [res |-> Result("panic", 0), nat |-> nat]
               ELSE [res |-> NodeNamespaceMatch(AsU32(nat.result), nat.index), nat |-> nat]

\* The texts given to the validators: up to MaxRuns runs of the bytes
\* 'a', '0', '_', '+', '/' and zero, each 1, 9 or 255 long.
TextBytes == {97, 48, 95, 43, 47, 0}
RunLens == {1, 9, 255}
Texts == SeqsUpTo({Run(ch, n) : ch \in TextBytes, n \in RunLens}, MaxRuns)

\* Node::validate_node_name(vin) is called.
ValidateNodeName ==
    /\ LET v == validate_node_name(vin, vfault)
       IN /\ vnat' = v.nat
          /\ vout' = v.res
    /\ vop' = "name"
    /\ UNCHANGED <<lifeVars, vin, vfault, builderVars>>

\* Node::validate_node_namespace(vin) is called.
ValidateNodeNamespace ==
    /\ LET v == validate_node_namespace(vin, vfault)
       IN /\ vnat' = v.nat
          /\ vout' = v.res
    /\ vop' = "namespace"
    /\ UNCHANGED <<lifeVars, vin, vfault, builderVars>>

NodeNext ==
    \/ ValidateNodeName
    \/ ValidateNodeNamespace

\* The validators, called on every text.
SpecNode == LifeInit({<<>>}) /\ NodeInit(Texts, NativeFaults) /\ [][NodeNext]_vars

\* ---------------------------------------------------------------------
\* node.rs: NodeBuilder.  A setter takes the builder by value and returns
\* it; a setter that panics returns nothing and the builder it was given is
\* dropped by the unwinding, its fields as they were at the panic.

\* Mutant: the name is stored before it is validated.
NodeBuilder_name_assigns_first(b, name, fault) ==
    IF validate_node_name(name, fault).res.tag # "Ok"
    THEN [panic |-> TRUE, builder |-> [b EXCEPT !.alive = FALSE, !.name = Some(name)]]
    ELSE [panic |-> FALSE, builder |-> [b EXCEPT !.name = Some(name)]]

\* NodeBuilder::name: validate, panic on any rejection, then assign.
NodeBuilder_name(b, name, fault) ==
    IF validate_node_name(name, fault).res.tag # "Ok"
    THEN [panic |-> TRUE, builder |-> [b EXCEPT !.alive = FALSE]]
    ELSE [panic |-> FALSE, builder |-> [b EXCEPT !.name = Some(name)]]

\* Mutant: the namespace is stored without validation.
NodeBuilder_namespace_unchecked(b, namespace, fault) ==
    [panic |-> FALSE, builder |-> [b EXCEPT !.namespace = namespace]]

\* NodeBuilder::namespace: validate, panic on any rejection, then assign.
NodeBuilder_namespace(b, namespace, fault) ==
    IF validate_node_namespace(namespace, fault).res.tag # "Ok"
    THEN [panic |-> TRUE, builder |-> [b EXCEPT !.alive = FALSE]]
    ELSE [panic |-> FALSE, builder |-> [b EXCEPT !.namespace = namespace]]

\* Mutant: the flag is set on a fresh default builder.
NodeBuilder_enable_rosout_on_default(b, enable) ==
    [NodeBuilder_default EXCEPT !.rosout = enable]

\* NodeBuilder::enable_rosout: assign the flag.
NodeBuilder_enable_rosout(b, enable) ==
    [b EXCEPT !.rosout = enable]

\* NodeBuilder::build: todo!() panics, the builder it consumed is dropped.
NodeBuilder_build(b) ==
    [panic |-> TRUE, builder |-> [b EXCEPT !.alive = FALSE]]

\* Identifiers given to the setters beside vin.
SampleName == <<Run(97, 1)>>
SampleNamespace == <<Run(47, 1), Run(97, 1)>>

MaxBuilderRuns == 2
BuilderRunLens == {1, 255}
BuilderTexts ==
    SeqsUpTo({Run(ch, n) : ch \in TextBytes, n \in BuilderRunLens}, MaxBuilderRuns)

\* NodeBuilder::default() is called; a builder the caller still held is
\* dropped.
BuilderDefault ==
    /\ builder' = NodeBuilder_default
    /\ blast' = "default"
    /\ barg' = Arg(<<>>, FALSE)
    /\ bpanic' = FALSE
    /\ UNCHANGED <<lifeVars, vin, vfault, vop, vnat, vout>>

\* builder.name(name) is called.
BuilderName(name) ==
    /\ builder.alive
    /\ LET r == NodeBuilder_name(builder, name, vfault)
       IN /\ builder' = r.builder
          /\ bpanic' = r.panic
    /\ blast' = "name"
    /\ barg' = Arg(name, FALSE)
    /\ UNCHANGED <<lifeVars, vin, vfault, vop, vnat, vout>>

\* builder.namespace(namespace) is called.
BuilderNamespace(namespace) ==
    /\ builder.alive
    /\ LET r == NodeBuilder_namespace(builder, namespace, vfault)
       IN /\ builder' = r.builder
          /\ bpanic' = r.panic
    /\ blast' = "namespace"
    /\ barg' = Arg(namespace, FALSE)
    /\ UNCHANGED <<lifeVars, vin, vfault, vop, vnat, vout>>

\* builder.enable_rosout(enable) is called.
BuilderEnableRosout(enable) ==
    /\ builder.alive
    /\ builder' = NodeBuilder_enable_rosout(builder, enable)
    /\ bpanic' = FALSE
    /\ blast' = "enable_rosout"
    /\ barg' = Arg(<<>>, enable)
    /\ UNCHANGED <<lifeVars, vin, vfault, vop, vnat, vout>>

\* builder.build() is called.
BuilderBuild ==
    /\ builder.alive
    /\ LET r == NodeBuilder_build(builder)
       IN /\ builder' = r.builder
          /\ bpanic' = r.panic
    /\ blast' = "build"
    /\ barg' = Arg(<<>>, FALSE)
    /\ UNCHANGED <<lifeVars, vin, vfault, vop, vnat, vout>>

BuilderNext ==
    \/ BuilderDefault
    \/ \E name \in {vin, SampleName} : BuilderName(name)
    \/ \E namespace \in {vin, SampleNamespace} : BuilderNamespace(namespace)
    \/ \E enable \in BOOLEAN : BuilderEnableRosout(enable)
    \/ BuilderBuild

SpecBuilder == LifeInit({<<>>}) /\ NodeInit(BuilderTexts, NativeFaults) /\ [][BuilderNext]_vars

\* ---------------------------------------------------------------------
\* The crate as a whole: creation and destruction of runtime handles, the
\* validators and the builder, in any interleaving, the steps of a
\* destruction included, on a process started with one plain argument.
CrateTexts == {SampleName, SampleNamespace, NulArg}

RuntimeNext ==
    \/ \E fo \in OptFaults, fi \in InitFaults : RosInit(fo, fi)
    \/ \E h \in Ids : DropBegin(h)
    \/ \E h \in Ids : DropLock(h)
    \/ \E h \in Ids : DropShutdown(h)
    \/ \E h \in Ids : DropFields(h)

CrateNext ==
    \/ RuntimeNext
    \/ NodeNext
    \/ BuilderNext

SpecCrate ==
    /\ LifeInit({<<PlainArg>>})
    /\ NodeInit(CrateTexts, NativeFaults)
    /\ [][CrateNext]_vars

\* ------------------------------------------------------- history helpers
CallsOf(h, op) == {i \in 1..Len(calls[h]) : calls[h][i].op = op}
CallsOk(h, op) == {i \in CallsOf(h, op) : calls[h][i].ret = RCL_RET_OK}
HandleExists(h) == ros[h] \in {"live", "dropping", "shutting", "fields"}

\* ---------------------------------------------------------------- claims
\* C1: rcl_context_fini is only ever issued on a context that is still
\* zero-initialized (native init never succeeded on it) or that was
\* initialized and then shut down; never on a live context.
FiniNeverOnLiveContext ==
    \A h \in Ids : \A i \in CallsOf(h, "rcl_context_fini") :
        LET before == {j \in 1..(i - 1) : calls[h][j].ret = RCL_RET_OK}
            inited == \E j \in before : calls[h][j].op = "rcl_init"
            shut == \E j \in before : calls[h][j].op = "rcl_shutdown"
        IN /\ calls[h][i].ctx \in {"zero", "shutdown"}
           /\ calls[h][i].ctx = "zero" => ~inited
           /\ calls[h][i].ctx = "shutdown" => inited /\ shut

\* C1 witness: one context was finalized after init and shutdown, another
\* after an init that failed.
FiniOnBothKinds ==
    \E h, g \in Ids :
        /\ \E i \in CallsOf(h, "rcl_context_fini") : calls[h][i].ctx = "shutdown"
        /\ \E i \in CallsOf(g, "rcl_context_fini") : calls[g][i].ctx = "zero"

\* C2: a Ros handle exists only for an attempt whose native init returned
\* OK; a non-success code leaves no handle and Ros::init returns Err or
\* panics.
HandleOnlyIfInitSucceeded ==
    \A h \in Ids :
        /\ ros[h] # "none" => outcome[h] = "Ok" /\ CallsOk(h, "rcl_init") # {}
        /\ (\E i \in CallsOf(h, "rcl_init") : calls[h][i].ret # RCL_RET_OK)
              => ros[h] = "none" /\ outcome[h] \in {"Err_InvalidROSArguments", "panic"}
        /\ HandleExists(h) /\ ros[h] # "fields" => context[h] = "initialized"

\* C2 witness: a handle is alive while another attempt's native init failed.
HandleBesideFailedInit ==
    \E h, g \in Ids :
        /\ ros[h] = "live"
        /\ \E i \in CallsOf(g, "rcl_init") : calls[g][i].ret # RCL_RET_OK
        /\ ros[g] = "none"

\* C3: every init/drop cycle succeeds: its context and its options are
\* each finalized exactly once and no success assertion fails; nothing is
\* ever finalized twice.
EveryCycleSucceeds ==
    \A h \in Ids :
        /\ Cardinality(CallsOf(h, "rcl_context_fini")) <= 1
        /\ Cardinality(CallsOf(h, "rcl_init_options_fini")) <= 1
        /\ outcome[h] = "Ok" => panics[h] = {}
        /\ ros[h] = "gone" =>
              /\ Cardinality(CallsOk(h, "rcl_context_fini")) = 1
              /\ Cardinality(CallsOk(h, "rcl_init_options_fini")) = 1
              /\ Cardinality(CallsOk(h, "rcl_shutdown")) = 1
              /\ \A i \in 1..Len(calls[h]) : calls[h][i].ret = RCL_RET_OK

\* C3 witness: as many cycles as the bound allows ran one after the other,
\* never two handles at once.
AllCyclesSequentialDone ==
    /\ \A h \in Ids : ros[h] = "gone"
    /\ ~overlapped

\* C4: is_valid answers true exactly for a context that was successfully
\* initialized and not yet shut down: false on a fresh context, true from
\* a successful Ros::init until the handle's destruction shuts it down.
IsValidIffInitializedNotShutDown ==
    /\ ~is_valid(RosContext_default)
    /\ \A h \in Ids :
          /\ context[h] \in {"zero", "initialized", "shutdown"} =>
                (is_valid(context[h]) <=>
                    CallsOk(h, "rcl_init") # {} /\ CallsOf(h, "rcl_shutdown") = {})
          /\ ros[h] \in {"live", "dropping", "shutting"} => is_valid(context[h])
    /\ \A t \in Threads : tpc[t] = "checked" => seen[t] = "live"

\* C4 witness: a thread has run the liveness check on a live handle.
LivenessCheckAnswered ==
    \E t \in Threads : tpc[t] = "checked" /\ seen[t] = "live" /\ ros[tctx[t]] = "live"

\* C5: Ros::init maps OK to Ok(handle), INVALID_ROS_ARGS to a returned
\* Err(InvalidROSArguments) without a panic, and every other code to a
\* panic, never to Ok or Err.
InitReturnCodeMapping ==
    \A h \in Ids : \A i \in CallsOf(h, "rcl_init") :
        LET ret == calls[h][i].ret
        IN /\ ret = RCL_RET_OK => outcome[h] = "Ok" /\ ros[h] # "none"
           /\ ret = RCL_RET_INVALID_ROS_ARGS =>
                 outcome[h] = "Err_InvalidROSArguments" /\ panics[h] = {} /\ ros[h] = "none"
           /\ ret \notin {RCL_RET_OK, RCL_RET_INVALID_ROS_ARGS} =>
                 outcome[h] = "panic" /\ "init_unspecified" \in panics[h] /\ ros[h] = "none"

\* C5 witness: one attempt was answered INVALID_ROS_ARGS and returned Err,
\* another was answered an unspecified code and panicked.
ErrAndFatalSeen ==
    \E h, g \in Ids :
        /\ outcome[h] = "Err_InvalidROSArguments"
        /\ outcome[g] = "panic" /\ "init_unspecified" \in panics[g]

\* C6: after Err(InvalidROSArguments) the attempt's context and options
\* were each finalized exactly once, with passing assertions and without
\* any rcl_shutdown; every attempt, also one that follows failed attempts,
\* runs on options it initialized itself and on a zero-initialized context.
FailedInitCleansUpAndRetryIsFresh ==
    \A h \in Ids :
        /\ outcome[h] = "Err_InvalidROSArguments" =>
              /\ Len(calls[h]) = 4
              /\ calls[h][1] = Call("rcl_init_options_init", "unborn", "zero", RCL_RET_OK)
              /\ calls[h][2] = Call("rcl_init", "zero", "initialized", RCL_RET_INVALID_ROS_ARGS)
              /\ calls[h][3] = Call("rcl_context_fini", "zero", "initialized", RCL_RET_OK)
              /\ calls[h][4] = Call("rcl_init_options_fini", "freed", "initialized", RCL_RET_OK)
              /\ panics[h] = {}
              /\ context[h] = "freed" /\ options[h] = "finalized"
        /\ \A i \in CallsOf(h, "rcl_init") :
              /\ calls[h][i].ctx = "zero" /\ calls[h][i].opt = "initialized"
              /\ i = 2 /\ calls[h][1].op = "rcl_init_options_init"

\* C6 witness: Ros::init was retried after Err(InvalidROSArguments) as
\* often as the bound allows.
RetriedAfterErr ==
    /\ nextId > MaxInits
    /\ \A h \in Ids : outcome[h] = "Err_InvalidROSArguments"

\* C7 (as claimed): a thread inside the liveness check holds the lock in
\* shared mode only, so that two checks can overlap.
LivenessCheckNeedsOnlySharedAccess ==
    \A t \in Threads : tpc[t] = "is_valid" => writer[tctx[t]] = "none"

\* C8: while rcl_shutdown is in progress on a handle's context the
\* destructor holds the write lock and no thread holds a guard of that
\* handle or is inside a liveness check on it.
ShutdownHasExclusiveAccess ==
    \A h \in Ids : ros[h] = "shutting" =>
        /\ writer[h] = "drop"
        /\ readers[h] = {}
        /\ \A t \in Threads : tpc[t] # "idle" => tctx[t] # h

\* C8 witness: rcl_shutdown is in progress on one handle while a thread
\* is inside a liveness check on another.
ShutdownBesideLivenessCheck ==
    \E h \in Ids, t \in Threads :
        ros[h] = "shutting" /\ tpc[t] = "is_valid" /\ tctx[t] # h

\* C9: rcl_shutdown is issued at most once per context, only on a live
\* one (never after a failed init), its assertion holds, and it precedes
\* the rcl_context_fini of the same context.
ShutdownOnceWhileLiveBeforeFini ==
    \A h \in Ids :
        /\ Cardinality(CallsOf(h, "rcl_shutdown")) <= 1
        /\ \A i \in CallsOf(h, "rcl_shutdown") :
              /\ calls[h][i].ctx = "initialized"
              /\ calls[h][i].ret = RCL_RET_OK
              /\ outcome[h] = "Ok"
              /\ \A j \in CallsOf(h, "rcl_context_fini") : i < j
        /\ "shutdown_assert" \notin panics[h]
        /\ outcome[h] # "Ok" => CallsOf(h, "rcl_shutdown") = {}
        /\ ros[h] = "gone" => CallsOf(h, "rcl_shutdown") # {}

\* C9 witness: a handle was destroyed (shutdown, then finalize) and an
\* attempt whose init failed was cleaned up without shutdown.
ShutdownThenFiniSeen ==
    \E h, g \in Ids :
        /\ ros[h] = "gone" /\ CallsOf(h, "rcl_shutdown") # {}
        /\ outcome[g] # "Ok" /\ CallsOf(g, "rcl_context_fini") # {}

\* The fixed mapping of the native node name codes 0..4 to results.
NodeNameImage ==
    [code \in 0..4 |->
        <<"Ok", "EmptyString", "ContainsUnallowedCharacters", "StartsWithNumber", "IsTooLong">>[code + 1]]

\* C10: on an input without a zero byte for which the native validator
\* returns status OK and an enumerated code, validate_node_name returns the
\* image of that code: valid -> Ok, empty -> EmptyString, unallowed
\* characters -> ContainsUnallowedCharacters(i) with i the offset the
\* native routine reported, leading digit -> StartsWithNumber, too long ->
\* IsTooLong; none of them panics.
NodeNameResultIsImageOfNativeCode ==
    (/\ vop = "name"
     /\ ~HasNul(vin)
     /\ vnat.ret = RMW_RET_OK
     /\ vnat.result \in 0..4)
    => /\ vnat.called /\ vnat.arg = vin
       /\ vout.tag = NodeNameImage[vnat.result]
       /\ vout.index = (IF vnat.result = 2 THEN vnat.index ELSE 0)
       /\ vnat.result = 2 => vin # <<>> /\ vout.index < TextLen(vin)

\* C10 witness: nine letters, a '+', nine letters: the native routine
\* reports unallowed characters at offset 9 and so does validate_node_name.
UnallowedCharacterAtNine ==
    /\ vop = "name"
    /\ vin = <<Run(97, 9), Run(43, 1), Run(97, 9)>>
    /\ vnat.called /\ vnat.ret = RMW_RET_OK /\ vnat.result = 2 /\ vnat.index = 9
    /\ vout = Result("ContainsUnallowedCharacters", 9)

\* The fixed mapping of the native namespace codes 0..7 to results.
NodeNamespaceImage ==
    [code \in 0..7 |->
        <<"Ok", "EmptyString", "NotAbsolute", "EndsWithForwardSlash",
          "ContainsUnallowedCharacters", "ContainsRepeatedForwardSlash",
          "StartsWithNumber", "IsTooLong">>[code + 1]]

\* C11: on an input without a zero byte for which the native namespace
\* validator returns status OK and an enumerated code, the result of
\* validate_node_namespace is the image of that code, with the offset the
\* native routine reported for unallowed characters and for a repeated
\* '/'; distinct codes have distinct images.
NodeNamespaceResultIsImageOfNativeCode ==
    /\ \A c, d \in 0..7 : NodeNamespaceMatch(c, 0).tag = NodeNamespaceMatch(d, 0).tag => c = d
    /\ (/\ vop = "namespace"
        /\ ~HasNul(vin)
        /\ vnat.ret = RMW_RET_OK
        /\ vnat.result \in 0..7)
       => /\ vnat.called /\ vnat.arg = vin
          /\ vout.tag = NodeNamespaceImage[vnat.result]
          /\ vout.index = (IF vnat.result \in {4, 5} THEN vnat.index ELSE 0)

\* C11 witness: nine '/' and nine letters: a repeated '/' at the offset
\* of the second '/'.
RepeatedSlashSeen ==
    /\ vop = "namespace"
    /\ vin = <<Run(47, 9), Run(97, 9)>>
    /\ vnat.called /\ vnat.result = 5 /\ vnat.index = 1
    /\ vout = Result("ContainsRepeatedForwardSlash", 1)

\* C12: for both validators an input with an embedded zero byte yields
\* InvalidCString as a returned value, and the native routine is not
\* invoked for it.
ZeroByteRejectedBeforeNativeCall ==
    (vop # "none" /\ HasNul(vin)) =>
        /\ vout = Result("InvalidCString", NulPosition(vin))
        /\ ~vnat.called

\* C12 witness: validate_node_namespace was called on "/\0a".
NamespaceWithZeroByteSeen ==
    /\ vop = "namespace"
    /\ vin = <<Run(47, 1), Run(0, 1), Run(97, 1)>>
    /\ vout = Result("InvalidCString", 1)
    /\ vnat = NotCalled

\* The validators on a stored identifier, the native routine following its
\* contract.
NamePasses(name) == validate_node_name(name, "none").res.tag = "Ok"
NamespacePasses(namespace) == validate_node_namespace(namespace, "none").res.tag = "Ok"

\* C13 as stated: in every builder state the stored name, when present,
\* passes validate_node_name and the stored namespace passes
\* validate_node_namespace.  NodeBuilder::default() refutes it.
BuilderHoldsOnlyAcceptedIdentifiers ==
    /\ builder.name # None => NamePasses(builder.name[1])
    /\ NamespacePasses(builder.namespace)

\* C13: in every builder state reached from NodeBuilder::default() by
\* name(), namespace() and enable_rosout(), the stored name, when present,
\* passes validate_node_name, and the stored namespace either passes
\* validate_node_namespace or is the empty namespace of the default
\* builder, which no call of namespace() stored.
BuilderHoldsAcceptedOrDefaultIdentifiers ==
    /\ builder.name # None => NamePasses(builder.name[1])
    /\ builder.namespace # NodeBuilder_default.namespace => NamespacePasses(builder.namespace)
    /\ (blast = "namespace" /\ ~bpanic) => builder.namespace # NodeBuilder_default.namespace

\* C13 witness: a builder that was given the name "a" and the namespace
\* "/_" and had rosout switched off.
BuilderWithNameAndNamespace ==
    /\ builder.alive
    /\ builder.name = Some(SampleName)
    /\ builder.namespace = <<Run(47, 1), Run(95, 1)>>
    /\ ~builder.rosout

\* C14 as stated, its last part: build() is never reached with an
\* identifier that the setters reject.  NodeBuilder::default().build()
\* refutes it: namespace("") panics, and the default namespace is "".
BuildNeverReachedWithRejectedIdentifier ==
    blast = "build" =>
        /\ builder.name # None => NamePasses(builder.name[1])
        /\ NamespacePasses(builder.namespace)

\* C14: name(n) panics for every n that validate_node_name rejects and
\* namespace(ns) panics for every ns that validate_node_namespace rejects;
\* the panic precedes the assignment, so the call returns no builder and
\* the builder it consumed never held the rejected identifier in the field;
\* build() is reached with a rejected identifier only for the empty
\* namespace of NodeBuilder::default().
RejectedIdentifierPanicsBeforeAssignment ==
    /\ (blast = "name" /\ validate_node_name(barg.text, vfault).res.tag # "Ok")
       => /\ bpanic /\ ~builder.alive
          /\ builder.name # Some(barg.text)
    /\ (blast = "namespace" /\ validate_node_namespace(barg.text, vfault).res.tag # "Ok")
       => /\ bpanic /\ ~builder.alive
          /\ builder.namespace = barg.text => barg.text = NodeBuilder_default.namespace
    /\ (blast \in {"name", "namespace"} /\ ~bpanic) => builder.alive
    /\ blast = "build"
       => /\ builder.name # None => NamePasses(builder.name[1])
          /\ \/ NamespacePasses(builder.namespace)
             \/ builder.namespace = NodeBuilder_default.namespace

\* C14 witness: namespace("/+") panicked on a builder named "a".
NamespaceSetterPanicked ==
    /\ blast = "namespace"
    /\ barg.text = <<Run(47, 1), Run(43, 1)>>
    /\ bpanic /\ ~builder.alive
    /\ builder.name = Some(SampleName)
    /\ builder.namespace = NodeBuilder_default.namespace

\* C20: each setter changes its own field only: enable_rosout(b) sets the
\* flag to b, validates nothing and does not panic, whatever the native
\* validators would answer, and leaves name and namespace; a name(n) that
\* returns sets the name to n and leaves namespace and flag; a
\* namespace(ns) that returns sets the namespace to ns and leaves name and
\* flag.
SettersChangeOnlyTheirField ==
    [][/\ blast' = "enable_rosout"
          => /\ ~bpanic' /\ builder'.alive
             /\ builder'.rosout = barg'.flag
             /\ builder'.name = builder.name
             /\ builder'.namespace = builder.namespace
       /\ (blast' = "name" /\ ~bpanic')
          => /\ builder'.name = Some(barg'.text)
             /\ builder'.namespace = builder.namespace
             /\ builder'.rosout = builder.rosout
       /\ (blast' = "namespace" /\ ~bpanic')
          => /\ builder'.namespace = barg'.text
             /\ builder'.name = builder.name
             /\ builder'.rosout = builder.rosout]_vars

\* C20 witness: enable_rosout(false) on a builder that holds the name "a"
\* and the namespace "/a".
RosoutSwitchedOffOnNamedBuilder ==
    /\ blast = "enable_rosout" /\ barg.flag = FALSE
    /\ builder.alive /\ ~builder.rosout
    /\ builder.name = Some(SampleName)
    /\ builder.namespace = SampleNamespace

NativeContractBreachIsFatal ==
    (/\ vop # "none"
     /\ vnat.called
     /\ \/ vnat.ret # RMW_RET_OK
        \/ vnat.result \notin (IF vop = "name" THEN 0..4 ELSE 0..7))
    => vout = Result("panic", 0)

\* C17 witness: the native namespace routine answered with a code beyond
\* TOO_LONG for "/a...a" and validate_node_namespace panicked.
UnknownNamespaceCodeSeen ==
    /\ vop = "namespace"
    /\ vin = <<Run(47, 1), Run(97, 9)>>
    /\ vnat.called /\ vnat.ret = RMW_RET_OK
    /\ vnat.result = RMW_NAMESPACE_INVALID_TOO_LONG + 1
    /\ vout.tag = "panic"

\* The arguments of the process that CString::new accepts, in order.
RepresentableArgs == SelectSeq(argv, LAMBDA a : ~HasNul(a))

\* The native calls of attempt h that did not return OK.
FailedCalls(h) == {i \in 1..Len(calls[h]) : calls[h][i].ret # RCL_RET_OK}

\* C16: the vector handed to rcl_init holds the arguments of the process
\* without those that contain a zero byte, each as the bytes it had,
\* zero-terminated, in the original order, and as many as remain; and an
\* argument with a zero byte is never the cause of a failure: an attempt
\* that returns Err has a malformed ROS argument among the remaining ones,
\* an attempt that panics has a non-Unicode argument or a native call that
\* failed.
ArgumentsPassedAreTheRepresentableOnes ==
    \A h \in Ids :
        /\ CallsOf(h, "rcl_init") # {}
           => /\ Len(passed[h]) = Len(RepresentableArgs)
              /\ \A i \in 1..Len(passed[h]) :
                    /\ c_str(passed[h][i]) = RepresentableArgs[i]
                    /\ passed[h][i] = Append(RepresentableArgs[i], Run(0, 1))
        /\ outcome[h] = "Err_InvalidROSArguments"
           => \E i \in 1..Len(RepresentableArgs) : RepresentableArgs[i] = BadRosArg
        /\ outcome[h] = "panic"
           => \/ ~env_args(argv).ok
              \/ FailedCalls(h) # {}
        /\ (/\ outcome[h] # "none"
            /\ env_args(argv).ok
            /\ FailedCalls(h) = {})
           => outcome[h] = "Ok"

\* C16 witness: the process was started with "a\0b" and "a"; rcl_init was
\* given "a" alone and Ros::init returned Ok.
ZeroByteArgumentDropped ==
    /\ argv = <<NulArg, PlainArg>>
    /\ outcome[1] = "Ok"
    /\ passed[1] = <<Append(PlainArg, Run(0, 1))>>

\* C18: the init options of an attempt are initialized when rcl_init is
\* called with them and are finalized once, by a call that finds them
\* initialized, returns OK and follows rcl_init, before Ros::init returns
\* Ok or Err(InvalidROSArguments); no state holds options that are still
\* initialized after the Ros::init that created them.
OptionsCoverInitAndAreFinalizedOnce ==
    \A h \in Ids :
        /\ options[h] # "initialized"
        /\ \A i \in CallsOf(h, "rcl_init") :
              /\ calls[h][i].opt = "initialized"
              /\ \E j \in CallsOk(h, "rcl_init_options_init") : j < i
              /\ \A j \in CallsOf(h, "rcl_init_options_fini") : i < j
        /\ Cardinality(CallsOf(h, "rcl_init_options_fini")) <= 1
        /\ outcome[h] \in {"Ok", "Err_InvalidROSArguments"}
           => /\ options[h] = "finalized"
              /\ Cardinality(CallsOf(h, "rcl_init")) = 1
              /\ Cardinality(CallsOk(h, "rcl_init_options_fini")) = 1
              /\ \A j \in CallsOf(h, "rcl_init_options_fini") :
                    /\ calls[h][j].opt = "initialized"
                    /\ \A k \in CallsOf(h, "rcl_shutdown") : j < k

\* C18 witness: an attempt that returned Err(InvalidROSArguments), its
\* options finalized by the last native call of the attempt.
OptionsFinalizedOnErrPath ==
    /\ outcome[1] = "Err_InvalidROSArguments"
    /\ options[1] = "finalized"
    /\ Len(calls[1]) = 4
    /\ calls[1][2].op = "rcl_init" /\ calls[1][2].opt = "initialized"
    /\ calls[1][4] = Call("rcl_init_options_fini", "freed", "initialized", RCL_RET_OK)

\* C19: rcl_init is called at most once per context, on a context that is
\* zero-initialized and that no native call touched before; it never
\* returns ALREADY_INIT; and a handle that was destroyed stays destroyed,
\* its context freed.
InitOnlyOnFreshContext ==
    /\ [](\A h \in Ids :
            /\ Cardinality(CallsOf(h, "rcl_init")) <= 1
            /\ \A i \in CallsOf(h, "rcl_init") :
                  /\ calls[h][i].ctx = rcl_get_zero_initialized_context
                  /\ calls[h][i].ret # RCL_RET_ALREADY_INIT
                  /\ \A j \in 1..(i - 1) : calls[h][j].op = "rcl_init_options_init"
            /\ ros[h] = "gone" => context[h] = "freed")
    /\ [][\A h \in Ids :
            /\ ros[h] = "gone" => ros'[h] = "gone"
            /\ context[h] \in {"shutdown", "freed"} => context'[h] \in {"shutdown", "freed"}]_vars

\* C19 witness: the first handle was destroyed and the second attempt
\* initialized a context of its own, zero-initialized at the call.
SecondInitOnFreshContext ==
    /\ ros[1] = "gone" /\ context[1] = "freed"
    /\ ros[2] = "live" /\ context[2] = "initialized"
    /\ calls[2][2] = Call("rcl_init", "zero", "initialized", RCL_RET_OK)

\* C21: when rcl_init returns a code other than OK and INVALID_ROS_ARGS,
\* Ros::init panics and leaves no handle; the unwinding finalizes the
\* context of the attempt once, zero-initialized and with OK, and its
\* options once, initialized and with OK, both after rcl_init; no
\* rcl_shutdown is issued, no assertion of a destructor fails and the
\* process is not aborted.
FatalInitStillFinalizesOnce ==
    \A h \in Ids :
        (\E i \in CallsOf(h, "rcl_init") :
            calls[h][i].ret \notin {RCL_RET_OK, RCL_RET_INVALID_ROS_ARGS})
        => /\ outcome[h] = "panic"
           /\ panics[h] = {"init_unspecified"}
           /\ ros[h] = "none"
           /\ CallsOf(h, "rcl_shutdown") = {}
           /\ Cardinality(CallsOf(h, "rcl_context_fini")) = 1
           /\ Cardinality(CallsOf(h, "rcl_init_options_fini")) = 1
           /\ \A j \in CallsOf(h, "rcl_context_fini") :
                 /\ calls[h][j].ctx = "zero"
                 /\ calls[h][j].ret = RCL_RET_OK
                 /\ \A i \in CallsOf(h, "rcl_init") : i < j
           /\ \A j \in CallsOf(h, "rcl_init_options_fini") :
                 /\ calls[h][j].opt = "initialized"
                 /\ calls[h][j].ret = RCL_RET_OK
                 /\ \A i \in CallsOf(h, "rcl_init") : i < j
           /\ context[h] = "freed"
           /\ options[h] = "finalized"

\* C21 witness: rcl_init returned BAD_ALLOC in the first attempt, which
\* panicked after four native calls, while the second attempt succeeded.
FatalInitUnwound ==
    /\ outcome[1] = "panic"
    /\ Len(calls[1]) = 4
    /\ calls[1][2] = Call("rcl_init", "zero", "initialized", RCL_RET_BAD_ALLOC)
    /\ calls[1][3].op = "rcl_context_fini"
    /\ calls[1][4].op = "rcl_init_options_fini"
    /\ outcome[2] = "Ok"

====
